---- MODULE Spec2Model ----
(***************************************************************************)
(* A model of the aPaaS OpenAPI client (src/src/index.ts): the token       *)
(* manager (getAccessToken / ensureTokenValid), the chunking iterators,    *)
(* the cursor pagination iterator and the request limiter.                 *)
(*                                                                         *)
(* Every asynchronous operation is a caller p \in Procs whose position is  *)
(* pc[p]; a step runs from one await to the next.  Nullable fields are     *)
(* sequences: <<>> is null/undefined, <<v>> is the value v.                *)
(***************************************************************************)
EXTENDS Integers, Sequences, FiniteSets, TLC

\* ---------------------------------------------------------------- bounds
NumProcs == 2
MaxCalls == 3
MaxTicks == 2
MaxN == 250
MaxPages == 3
MaxJobs == 5
MaxLimiterTicks == 12
MaxOpCalls == 2
MaxAgingTicks == 1
\* the step of the limiter's clock, in ms
LimiterTickMs == 100

\* ------------------------------------------------------ program constants
\* 60 * 1000 in ensureTokenValid
SafetyMarginMs == 60000
\* dayjs().valueOf() when the client is constructed (an offset, not the epoch)
StartTime == 1000
\* const chunkSize = 100 in every chunking iterator
chunkSize == 100

Procs == 1..NumProcs

Null == <<>>
Some(v) == <<v>>

\* JavaScript truthiness of a nullable string / number: !x is true for null,
\* undefined, "" and 0.
TruthyString(v) == v # Null /\ v[1] # ""
TruthyNumber(v) == v # Null /\ v[1] # 0

VARIABLES
    accessToken,        \* Client.accessToken: Null or Some(string)
    expireTime,         \* Client.expireTime: Null or Some(ms timestamp)
    disableTokenCache,  \* Client.disableTokenCache
    clientId,           \* Client.clientId
    clientSecret,       \* Client.clientSecret
    namespace,          \* Client.namespace
    loggerLevel,        \* Client.loggerLevel
    lastRead,           \* what the last getter called returned (Null: none called yet)
    now,                \* the wall clock read by dayjs().valueOf()
    ticks,              \* number of clock advances so far
    pc,                 \* pc[p]: where caller p is suspended
    op,                 \* op[p]: the operation caller p is running
    calls,              \* number of operations started so far
    callExch,           \* callExch[p]: exchanges sent by p's current ensureTokenValid
    outcome,            \* outcome[p]: what p's last operation returned or threw
    authReply,          \* authReply[p]: the answer to p's last exchange
    authRequests,       \* number of POST /auth/v1/appToken requests sent
    limQueue,           \* callers whose job waits in functionLimiter, oldest first
    limConfig,          \* the limiter's configuration: minTime, reservoir, refresh interval
    limNow,             \* ms since the limiter was created
    limReservoir,       \* permits left in the current refill window
    limLast,            \* time of the last dispatch (Null: none yet)
    limScheduled,       \* number of jobs handed to the limiter so far
    dispatchLog,        \* the jobs dispatched, in order, each with its time
    input,              \* input[p]: the records / ids / department_ids argument
    chunks,             \* chunks[p]: the iterator's local chunks array
    idx,                \* idx[p]: index + 1 of the chunk (or page) being processed
    results,            \* results[p]: the iterator's local results accumulator
    query,              \* query[p]: the data argument of search.recordsWithIterator
    nextPageToken,      \* nextPageToken[p]: the pagination loop's cursor
    total,              \* total[p]: the pagination loop's total
    page,               \* page[p]: the pagination loop's page counter
    sent,               \* sent[p]: the data requests p's operation has issued, in order
    replies,            \* replies[p]: the answers to those requests, in order
    jobFate,            \* jobFate[p]: per limiter job of the operation, "ok" or "threw"
    trace               \* trace[p]: the steps of p's current operation, in order:
                        \* "schedule" (a job is handed to functionLimiter), "dispatch"
                        \* (the limiter starts it), "ensure" (ensureTokenValid is
                        \* called), "send" (a data request is issued), "settle" (the
                        \* request's promise, and with it any job around it, settled),
                        \* "tick" (the clock advanced while the job waited)

optionVars == <<clientId, clientSecret, namespace, loggerLevel, lastRead>>
clientVars == <<accessToken, expireTime, disableTokenCache, optionVars>>
envVars == <<now, ticks>>
timerVars == <<limConfig, limNow, limReservoir, limLast, limScheduled, dispatchLog>>
callVars == <<pc, op, calls, callExch, outcome, authReply>>
iterVars == <<input, chunks, idx, results, query, nextPageToken, total, page>>
logVars == <<sent, replies, jobFate, trace>>
vars == <<clientVars, envVars, timerVars, callVars, authRequests, limQueue, timerVars, iterVars, logVars>>

\* ------------------------------------------------------------ the server
\* What the authentication endpoint may answer.  transport = TRUE is a
\* rejected axios promise (timeout, connection error, non-2xx status).
ServerTokens == {"", "t1", "t2"}
TokenTTLs == {60000, 120000}
ClockSteps == {59999, 60001}

\* The <<token, lifetime>> pairs the server grants (lifetime 0: an expireTime
\* of 0).
Grants ==
    { g \in ServerTokens \X ({0} \cup TokenTTLs) :
        g \in {<<"t1", 120000>>, <<"t2", 60000>>, <<"", 120000>>, <<"t1", 0>>} }

AuthOk(t) ==
    { [transport |-> FALSE, code |-> "0", msg |-> "success",
       accessToken |-> Some(g[1]),
       expireTime |-> Some(IF g[2] = 0 THEN 0 ELSE t + g[2])] : g \in Grants }

AuthRejected ==
    { [transport |-> FALSE, code |-> "1", msg |-> m,
       accessToken |-> Null, expireTime |-> Null] : m \in {"bad secret", "no app"} }

AuthTransportError ==
    { [transport |-> TRUE, code |-> "", msg |-> "network",
       accessToken |-> Null, expireTime |-> Null] }

AuthResponses(t) == AuthOk(t) \cup AuthRejected \cup AuthTransportError

\* --------------------------------------------------------- token manager
\* ensureTokenValid: whether it calls getAccessToken.
NeedsExchangeMarginDoubled(disable, tok, exp, t) ==
    \/ disable
    \/ ~TruthyString(tok) \/ ~TruthyNumber(exp)
    \/ t + 2 * SafetyMarginMs > exp[1]

NeedsExchangeCacheFlagIgnored(disable, tok, exp, t) ==
    \/ ~TruthyString(tok) \/ ~TruthyNumber(exp)
    \/ t + SafetyMarginMs > exp[1]

NeedsExchangeAtBoundary(disable, tok, exp, t) ==
    \/ disable
    \/ ~TruthyString(tok) \/ ~TruthyNumber(exp)
    \/ t + SafetyMarginMs >= exp[1]

NeedsExchange(disable, tok, exp, t) ==
    \/ disable
    \/ ~TruthyString(tok) \/ ~TruthyNumber(exp)
    \/ t + SafetyMarginMs > exp[1]

\* getAccessToken: the cached <<accessToken, expireTime>> after response res.
CachedAfterExchangeUnchecked(res, tok, exp) ==
    IF res.transport THEN <<tok, exp>> ELSE <<res.accessToken, res.expireTime>>

CachedAfterExchangeFirstWins(res, tok, exp) ==
    IF res.transport \/ res.code # "0" \/ (TruthyString(tok) /\ TruthyNumber(exp))
    THEN <<tok, exp>>
    ELSE <<res.accessToken, res.expireTime>>

CachedAfterExchangeKeepingLaterExpiry(res, tok, exp) ==
    IF res.transport \/ res.code # "0"
    THEN <<tok, exp>>
    ELSE <<res.accessToken,
           IF exp # Null /\ res.expireTime # Null /\ exp[1] > res.expireTime[1]
           THEN exp ELSE res.expireTime>>

CachedAfterExchange(res, tok, exp) ==
    IF res.transport \/ res.code # "0"
    THEN <<tok, exp>>
    ELSE <<res.accessToken, res.expireTime>>

\* getAccessToken: what it throws on response res (Null: it returns).
ExchangeError(res) ==
    IF res.transport THEN Some([kind |-> "transport", msg |-> res.msg])
    ELSE IF res.code # "0" THEN Some([kind |-> "auth", msg |-> res.msg])
    ELSE Null

\* get tokenExpireTime: null without a token, 0 once it has lapsed, else the
\* remaining whole seconds (Math.floor(remainMs / 1000)).
tokenExpireTimeUnclamped(tok, exp, t) ==
    IF ~TruthyString(tok) \/ ~TruthyNumber(exp) THEN Null
    ELSE Some((exp[1] - t) \div 1000)

tokenExpireTime(tok, exp, t) ==
    IF ~TruthyString(tok) \/ ~TruthyNumber(exp) THEN Null
    ELSE IF exp[1] - t <= 0 THEN Some(0)
    ELSE Some((exp[1] - t) \div 1000)

Returned(v) == [kind |-> "returned", value |-> v]
Threw(e) == [kind |-> "threw", error |-> e]
NoOutcome == [kind |-> "none"]

\* The operations modelled.  The chunking iterators are
\* object.create/update/delete.recordsWithIterator and department.batchExchange.
ChunkOps == {"create", "update", "delete", "batchExchange"}

\* The operations that make one request: object.list, object.metadata.field
\* and .fields, object.search/create/update/delete.record and .records,
\* department.exchange, function.invoke.
SingleOps ==
    {"list", "metadataField", "metadataFields", "searchRecord", "searchRecords",
     "createRecord", "createRecords", "updateRecord", "updateRecords",
     "deleteRecord", "deleteRecords", "exchange", "invoke"}

\* Whether a single-request operation wraps its body in functionLimiter(...).
UsesLimiter(o) ==
    o \in {"searchRecord", "createRecord", "updateRecord", "deleteRecord",
           "deleteRecords", "exchange"}

\* Whether a single-request operation awaits ensureTokenValid() before its
\* request: all but object.update.records.
EnsuresToken(o) == o # "updateRecords"

\* Whether the operation's requests are made inside a functionLimiter job.
InLimiterJob(o) == o \in ChunkOps \cup {"search"} \/ (o \in SingleOps /\ UsesLimiter(o))

\* Where an operation continues once ensureTokenValid has returned.
AfterEnsure(o) == IF o = "init" THEN "done" ELSE "send"

\* Where an operation goes when getAccessToken threw: nothing catches the
\* error, the operation rejects.
AfterExchangeErrorRetrying(o) == "ensure"

AfterExchangeErrorUsingCached(o) == IF o = "init" THEN "failed" ELSE "send"

AfterExchangeError(o) == "failed"

\* Where ensureTokenValid goes once getAccessToken has returned: it returns
\* to the operation without looking at the token it obtained.
AfterExchangeRechecking(o) == "ensure"

AfterExchange(o) == AfterEnsure(o)

\* Where a limiter job starts: at `await this.ensureTokenValid()`, its first
\* statement.
AfterDispatchSkippingEnsure(o) == "send"

AfterDispatch(o) == "ensure"

\* ----------------------------------------------------------------- init
TypeOK ==
    /\ disableTokenCache \in BOOLEAN
    /\ now \in Nat /\ ticks \in 0..MaxTicks
    /\ authRequests \in Nat

\* The options the client is constructed with, disableTokenCache apart.
ClientOptions == { [clientId |-> "cli_1", clientSecret |-> "secret_1", namespace |-> "app_1"] }

\* enum LoggerLevel { fatal = 0, error, warn, info, debug, trace }
LoggerLevel == [fatal |-> 0, error |-> 1, warn |-> 2, info |-> 3, debug |-> 4, trace |-> 5]

InitClient ==
    /\ accessToken = Null
    /\ expireTime = Null
    /\ disableTokenCache \in BOOLEAN
    /\ \E o \in ClientOptions :
         /\ clientId = o.clientId
         /\ clientSecret = o.clientSecret
         /\ namespace = o.namespace
    /\ loggerLevel = LoggerLevel.info
    /\ lastRead = Null
    /\ now = StartTime
    /\ ticks = 0
    /\ authRequests = 0

InitCallers ==
    /\ pc = [p \in Procs |-> "idle"]
    /\ op = [p \in Procs |-> "none"]
    /\ calls = 0
    /\ callExch = [p \in Procs |-> 0]
    /\ outcome = [p \in Procs |-> NoOutcome]
    /\ authReply = [p \in Procs |-> Null]
    /\ limQueue = <<>>
    /\ input = [p \in Procs |-> <<>>]
    /\ chunks = [p \in Procs |-> <<>>]
    /\ idx = [p \in Procs |-> 0]
    /\ results = [p \in Procs |-> <<>>]
    /\ query = [p \in Procs |-> Null]
    /\ nextPageToken = [p \in Procs |-> Null]
    /\ total = [p \in Procs |-> 0]
    /\ page = [p \in Procs |-> 0]
    /\ sent = [p \in Procs |-> <<>>]
    /\ replies = [p \in Procs |-> <<>>]
    /\ jobFate = [p \in Procs |-> <<>>]
    /\ trace = [p \in Procs |-> <<>>]

\* The limiter as the specification's defaults configure it: 200 ms between
\* dispatches, a reservoir of 20, refilled every 1000 ms.
DefaultLimiterConfig == [minTime |-> 200, reservoir |-> 20, interval |-> 1000]

InitLimiterWith(cfg) ==
    /\ limConfig = cfg
    /\ limNow = 0
    /\ limReservoir = cfg.reservoir
    /\ limLast = Null
    /\ limScheduled = 0
    /\ dispatchLog = <<>>

InitToken == InitClient /\ InitCallers /\ InitLimiterWith(DefaultLimiterConfig)

\* -------------------------------------------------------------- actions
\* The clock advances (trace notes it for the callers whose job waits in the
\* limiter).
Tick ==
    /\ ticks < MaxTicks
    /\ \E d \in ClockSteps : now' = now + d
    /\ ticks' = ticks + 1
    /\ trace' = [p \in Procs |-> IF pc[p] = "sched" THEN Append(trace[p], "tick") ELSE trace[p]]
    /\ UNCHANGED <<clientVars, callVars, authRequests, limQueue, timerVars, iterVars,
                   sent, replies, jobFate>>

\* client.init() is called: it runs up to its await of ensureTokenValid.
CallInit(p) ==
    /\ pc[p] \in {"idle", "done", "failed"}
    /\ calls < MaxCalls
    /\ pc' = [pc EXCEPT ![p] = "ensure"]
    /\ op' = [op EXCEPT ![p] = "init"]
    /\ calls' = calls + 1
    /\ callExch' = [callExch EXCEPT ![p] = 0]
    /\ outcome' = [outcome EXCEPT ![p] = NoOutcome]
    /\ authReply' = [authReply EXCEPT ![p] = Null]
    /\ trace' = [trace EXCEPT ![p] = <<>>]
    /\ UNCHANGED <<clientVars, envVars, timerVars, authRequests, limQueue, iterVars,
                   sent, replies, jobFate>>

\* ensureTokenValid, up to its first await: either it posts the credentials
\* (getAccessToken up to the await of axios.post) or it returns.
EnsureTokenValid(p) ==
    /\ pc[p] = "ensure"
    /\ IF NeedsExchange(disableTokenCache, accessToken, expireTime, now)
       THEN /\ authRequests' = authRequests + 1
            /\ callExch' = [callExch EXCEPT ![p] = @ + 1]
            /\ pc' = [pc EXCEPT ![p] = "awaitAuth"]
            /\ UNCHANGED outcome
       ELSE /\ pc' = [pc EXCEPT ![p] = AfterEnsure(op[p])]
            /\ outcome' = [outcome EXCEPT ![p] =
                   IF AfterEnsure(op[p]) = "done" THEN Returned(Null) ELSE @]
            /\ UNCHANGED <<authRequests, callExch>>
    /\ trace' = [trace EXCEPT ![p] = Append(@, "ensure")]
    /\ UNCHANGED <<clientVars, envVars, timerVars, op, calls, authReply, limQueue, iterVars,
                   sent, replies, jobFate>>

\* The authentication endpoint answers with one of R: the rest of
\* getAccessToken, and of ensureTokenValid, which returns or rethrows without
\* looking again.  A throw inside a limiter job rejects the job and, through
\* the awaits of the operation, the operation itself.
AuthResponseFrom(p, R) ==
    /\ pc[p] = "awaitAuth"
    /\ \E res \in R :
        LET cached == CachedAfterExchange(res, accessToken, expireTime)
            err == ExchangeError(res)
        IN  /\ authReply' = [authReply EXCEPT ![p] = Some(res)]
            /\ accessToken' = cached[1]
            /\ expireTime' = cached[2]
            /\ IF err # Null
               THEN /\ pc' = [pc EXCEPT ![p] = AfterExchangeError(op[p])]
                    /\ outcome' = [outcome EXCEPT ![p] = Threw(err[1])]
                    /\ jobFate' = [jobFate EXCEPT ![p] =
                           IF InLimiterJob(op[p]) THEN Append(@, "threw") ELSE @]
                    /\ trace' = [trace EXCEPT ![p] = Append(@, "settle")]
               ELSE /\ pc' = [pc EXCEPT ![p] = AfterExchange(op[p])]
                    /\ outcome' = [outcome EXCEPT ![p] =
                           IF AfterExchange(op[p]) = "done" THEN Returned(Null) ELSE @]
                    /\ UNCHANGED <<jobFate, trace>>
    /\ UNCHANGED <<disableTokenCache, optionVars, envVars, timerVars, op, calls, callExch,
                   authRequests, limQueue, iterVars, sent, replies>>

AuthResponse(p) == AuthResponseFrom(p, AuthResponses(now))

NextToken ==
    \/ Tick
    \/ \E p \in Procs : CallInit(p)
    \/ \E p \in Procs : EnsureTokenValid(p)
    \/ \E p \in Procs : AuthResponse(p)

SpecToken == InitToken /\ [][NextToken]_vars

\* ===================================================== chunking iterators
Min(a, b) == IF a < b THEN a ELSE b

\* Array.prototype.slice(a, b) for 0 <= a <= b: elements a .. b-1 (0-based).
Slice(s, a, b) == SubSeq(s, a + 1, Min(b, Len(s)))

\* for (let i = 0; i < records.length; i += chunkSize)
\*     chunks.push(records.slice(i, i + chunkSize));
RECURSIVE ChunksFrom(_, _)
ChunksFrom(s, i) ==
    IF i < Len(s)
    THEN <<Slice(s, i, i + chunkSize)>> \o ChunksFrom(s, i + chunkSize)
    ELSE <<>>

RECURSIVE ChunksFromShortSlice(_, _)
ChunksFromShortSlice(s, i) ==
    IF i < Len(s)
    THEN <<Slice(s, i, i + chunkSize - 1)>> \o ChunksFromShortSlice(s, i + chunkSize)
    ELSE <<>>

MakeChunksShortSlice(s) == ChunksFromShortSlice(s, 0)

MakeChunksNeverEmpty(s) == IF s = <<>> THEN <<s>> ELSE ChunksFrom(s, 0)

MakeChunks(s) == ChunksFrom(s, 0)

\* What a data endpoint may answer to a batch request with the given body:
\* a rejected axios promise, or an envelope {code, msg, data}.  items is
\* data.items (create), data (getDepartments), absent otherwise and on an
\* application-level failure.
DataTransportError ==
    [transport |-> TRUE, code |-> "", msg |-> "network", items |-> Null]

DataAppFailure ==
    [transport |-> FALSE, code |-> "1", msg |-> "denied", items |-> Null]

DataOk(items) ==
    [transport |-> FALSE, code |-> "0", msg |-> "success", items |-> items]

DataResponses(o, body) ==
    {DataTransportError, DataAppFailure} \cup
    (CASE o = "create" -> {DataOk(Some(body)), DataOk(Some(Tail(body)))}
       [] o = "batchExchange" -> {DataOk(Some(body))}
       [] OTHER -> {DataOk(Null)})

\* The authentication answers used while an iterator runs: a long-lived
\* token, a rejection, a network error.
AuthResponsesBrief(t) ==
    { r \in AuthResponses(t) :
        \/ r.transport
        \/ r.code # "0" /\ r.msg = "bad secret"
        \/ r.code = "0" /\ r.accessToken = Some("t1") /\ r.expireTime = Some(t + 120000) }

\* response.data, as the job returns it.
ResponseData(res) == [code |-> res.code, msg |-> res.msg, items |-> res.items]

\* `${this.accessToken}` in the Authorization header.
AuthorizationHeader(tok) == IF tok = Null THEN "null" ELSE tok[1]

\* Whether the limiter job rejects on answer res: axios rejected, or (create)
\* res.data.items.length is read with no items.
JobThrowsOnCode(o, res) ==
    res.transport \/ res.code # "0" \/ (o = "create" /\ res.items = Null)

JobThrows(o, res) == res.transport \/ (o = "create" /\ res.items = Null)

\* Whether the loop body throws after the job returned: batchExchange spreads
\* response.data.data into results.push.
LoopThrows(o, res) == o = "batchExchange" /\ res.items = Null

ThrownError(res) ==
    IF res.transport THEN [kind |-> "transport", msg |-> res.msg]
    ELSE [kind |-> "TypeError", msg |-> "undefined"]

\* The accumulator an invocation appends to: its own local `results`.
AccumulatorOfFirstCaller(p) == results[1]

Accumulator(p) == results[p]

\* The accumulator after a chunk that did not throw.
ResultsAfterPrepending(o, acc, res) ==
    IF o \in {"create", "batchExchange"} THEN res.items[1] \o acc
    ELSE <<ResponseData(res)>> \o acc

ResultsAfterSkippingFailures(o, acc, res) ==
    IF o \in {"create", "batchExchange"} THEN acc \o res.items[1]
    ELSE IF res.code # "0" THEN acc
    ELSE Append(acc, ResponseData(res))

ResultsAfter(o, acc, res) ==
    IF o \in {"create", "batchExchange"} THEN acc \o res.items[1]
    ELSE Append(acc, ResponseData(res))

\* What the iterator returns.
ReturnValueCountingItems(o, inp, acc) ==
    IF o = "create" THEN [total |-> Len(acc), items |-> acc] ELSE acc

ReturnValue(o, inp, acc) ==
    IF o = "create" THEN [total |-> Len(inp), items |-> acc] ELSE acc

\* Where the for loop goes after the job of chunk i of n settled.
AfterJobSwallowing(threw, i, n) ==
    IF i < n THEN "sched" ELSE IF threw THEN "failed" ELSE "done"

AfterJob(threw, i, n) ==
    IF threw THEN "failed" ELSE IF i < n THEN "sched" ELSE "done"

\* The jobs the for loop hands to functionLimiter before its first await: the
\* first chunk's only (`await functionLimiter(...)` inside the loop body).
EnqueuedByLoopAllAtOnce(p, ch) == [k \in 1..Len(ch) |-> p]

EnqueuedByLoop(p, ch) == <<p>>

\* What the caller of an iterator has in hand once a job settled: nothing
\* while the loop goes on, the rejection when the job (or the loop body) threw,
\* the return value after the last chunk or page.
IteratorOutcomeWithPartial(nxt, old, err, value) ==
    CASE nxt = "failed" -> Threw([kind |-> err.kind, msg |-> err.msg, partial |-> value])
      [] nxt = "done" -> Returned(value)
      [] OTHER -> old

IteratorOutcome(nxt, old, err, value) ==
    CASE nxt = "failed" -> Threw(err)
      [] nxt = "done" -> Returned(value)
      [] OTHER -> old

\* A chunking iterator is called with one of Inputs: it builds chunks and
\* hands the first chunk's job to the limiter, or returns at once when there
\* is none.
CallChunkedOn(p, Inputs) ==
    /\ pc[p] = "idle"
    /\ \E o \in ChunkOps, inp \in Inputs :
        LET ch == MakeChunks(inp)
        IN  /\ op' = [op EXCEPT ![p] = o]
            /\ input' = [input EXCEPT ![p] = inp]
            /\ chunks' = [chunks EXCEPT ![p] = ch]
            /\ results' = [results EXCEPT ![p] = <<>>]
            /\ IF ch = <<>>
               THEN /\ pc' = [pc EXCEPT ![p] = "done"]
                    /\ idx' = [idx EXCEPT ![p] = 0]
                    /\ outcome' = [outcome EXCEPT ![p] = Returned(ReturnValue(o, inp, <<>>))]
                    /\ UNCHANGED <<limQueue, trace>>
               ELSE /\ pc' = [pc EXCEPT ![p] = "sched"]
                    /\ idx' = [idx EXCEPT ![p] = 1]
                    /\ outcome' = [outcome EXCEPT ![p] = NoOutcome]
                    /\ limQueue' = limQueue \o EnqueuedByLoop(p, ch)
                    /\ trace' = [trace EXCEPT ![p] =
                           [k \in 1..Len(EnqueuedByLoop(p, ch)) |-> "schedule"]]
    /\ calls' = calls + 1
    /\ UNCHANGED <<clientVars, envVars, timerVars, callExch, authReply, authRequests,
                   sent, replies, jobFate, query, nextPageToken, total, page>>

\* A chunking iterator is called with n records, n in 0..MaxN.
CallChunked(p) == CallChunkedOn(p, { [i \in 1..n |-> i] : n \in 0..MaxN })

\* functionLimiter runs the oldest waiting job: the job starts with
\* ensureTokenValid.
LimiterDispatch(p) ==
    /\ pc[p] = "sched"
    /\ limQueue # <<>> /\ Head(limQueue) = p
    /\ limQueue' = Tail(limQueue)
    /\ pc' = [pc EXCEPT ![p] = AfterDispatch(op[p])]
    /\ callExch' = [callExch EXCEPT ![p] = 0]
    /\ trace' = [trace EXCEPT ![p] = Append(@, "dispatch")]
    /\ UNCHANGED <<clientVars, envVars, timerVars, op, calls, outcome, authReply, authRequests,
                   iterVars, sent, replies, jobFate>>

\* `nextPageToken || ''` and `res.data.total || 0`.
OrEmpty(v) == IF TruthyString(v) THEN v[1] ELSE ""
OrZero(v) == IF TruthyNumber(v) THEN v[1] ELSE 0

\* { ...data, page_token: nextPageToken || '' }
MergedDataKeepingCallerToken(q, cursor) ==
    [page_size |-> q.page_size, filter |-> q.filter,
     page_token |-> IF TruthyString(cursor) THEN cursor[1] ELSE OrEmpty(q.page_token)]

MergedData(q, cursor) ==
    [page_size |-> q.page_size, filter |-> q.filter, page_token |-> OrEmpty(cursor)]

\* The body of the request the job makes.
RequestBody(p) ==
    IF op[p] = "search" THEN MergedData(query[p][1], nextPageToken[p])
    ELSE IF op[p] \in SingleOps THEN input[p]
    ELSE chunks[p][idx[p]]

\* The job issues its request with the token cached at that moment.
SendRequest(p) ==
    /\ pc[p] = "send"
    /\ sent' = [sent EXCEPT ![p] =
           Append(@, [op |-> op[p], body |-> RequestBody(p),
                      auth |-> AuthorizationHeader(accessToken)])]
    /\ pc' = [pc EXCEPT ![p] = "awaitHttp"]
    /\ trace' = [trace EXCEPT ![p] = Append(@, "send")]
    /\ UNCHANGED <<clientVars, envVars, timerVars, op, calls, callExch, outcome, authReply,
                   authRequests, limQueue, iterVars, replies, jobFate>>

\* The endpoint answers: the rest of the job, results.push / concat, and the
\* loop's next iteration up to its functionLimiter call, or the return.
DataResponse(p) ==
    /\ pc[p] = "awaitHttp" /\ op[p] \in ChunkOps
    /\ \E res \in DataResponses(op[p], chunks[p][idx[p]]) :
        LET o == op[p]
            threw == JobThrows(o, res) \/ LoopThrows(o, res)
            nxt == AfterJob(threw, idx[p], Len(chunks[p]))
            acc == IF threw THEN Accumulator(p) ELSE ResultsAfter(o, Accumulator(p), res)
        IN  /\ replies' = [replies EXCEPT ![p] = Append(@, res)]
            /\ jobFate' = [jobFate EXCEPT ![p] =
                   Append(@, IF JobThrows(o, res) THEN "threw" ELSE "ok")]
            /\ results' = [results EXCEPT ![p] = acc]
            /\ pc' = [pc EXCEPT ![p] = nxt]
            /\ idx' = [idx EXCEPT ![p] = IF nxt = "sched" THEN @ + 1 ELSE @]
            /\ limQueue' = IF nxt = "sched" THEN Append(limQueue, p) ELSE limQueue
            /\ trace' = [trace EXCEPT ![p] =
                   IF nxt = "sched" THEN @ \o <<"settle", "schedule">> ELSE Append(@, "settle")]
            /\ outcome' = [outcome EXCEPT ![p] =
                   IteratorOutcome(nxt, @, ThrownError(res), ReturnValue(o, input[p], acc))]
    /\ UNCHANGED <<clientVars, envVars, timerVars, op, calls, callExch, authReply, authRequests,
                   input, chunks, sent, query, nextPageToken, total, page>>

\* One caller runs one chunking iterator.
IterCallers == {1}

NextChunk ==
    \/ \E p \in IterCallers : CallChunked(p)
    \/ \E p \in IterCallers : LimiterDispatch(p)
    \/ \E p \in IterCallers : EnsureTokenValid(p)
    \/ \E p \in IterCallers : AuthResponseFrom(p, AuthResponsesBrief(now))
    \/ \E p \in IterCallers : SendRequest(p)
    \/ \E p \in IterCallers : DataResponse(p)

SpecChunk == InitToken /\ [][NextChunk]_vars

\* Concatenation of a sequence of sequences.
RECURSIVE Flatten(_)
Flatten(ss) == IF ss = <<>> THEN <<>> ELSE Head(ss) \o Flatten(Tail(ss))

\* ================================================== pagination iterator
\* The data argument: page_size and page_token as the caller gave them (Null:
\* not given) and the other fields, which the iterator never looks at.
Queries ==
    { [page_size |-> Some(100), filter |-> "f1", page_token |-> Null],
      [page_size |-> Null, filter |-> "f2", page_token |-> Some("x")] }

PageItemCounts == {0, 50, 100}
PageTotals == {Null, Some(250)}

\* The cursor the server hands out with page pageNo: consecutive pages get
\* different cursors.
CursorOfPage(pageNo) == IF pageNo % 2 = 1 THEN "a" ELSE "b"

\* What records_query may answer when `streamed` records have been returned
\* so far: a rejected axios promise, an envelope without data, or an envelope
\* whose data holds items (the next records, or no array), total and
\* next_page_token.  The server ends the stream by page MaxPages.
PageTransportError ==
    [transport |-> TRUE, code |-> "", msg |-> "network", hasData |-> FALSE,
     items |-> Null, total |-> Null, cursor |-> Null]

PageAppFailure ==
    [transport |-> FALSE, code |-> "1", msg |-> "denied", hasData |-> FALSE,
     items |-> Null, total |-> Null, cursor |-> Null]

PageOk(streamed, pageNo) ==
    { [transport |-> FALSE, code |-> "0", msg |-> "success", hasData |-> TRUE,
       items |-> its, total |-> t, cursor |-> c] :
        its \in {Null} \cup { Some([i \in 1..n |-> streamed + i]) : n \in PageItemCounts },
        t \in PageTotals,
        c \in {Null, Some("")} \cup
              (IF pageNo < MaxPages THEN {Some(CursorOfPage(pageNo))} ELSE {}) }

PageResponses(streamed, pageNo) ==
    {PageTransportError, PageAppFailure} \cup PageOk(streamed, pageNo)

ItemsOf(res) == IF res.items = Null THEN <<>> ELSE res.items[1]

\* Records the server has returned to p's operation so far.
Streamed(log) == Len(Flatten([i \in 1..Len(log) |-> ItemsOf(log[i])]))

\* Whether the job throws on answer res: axios rejected, or res.data is
\* undefined where res.data.total / res.data.next_page_token is read.
PageThrows(res) == res.transport \/ ~res.hasData

\* if (page === 1) total = res.data.total || 0
TotalAfterEveryPage(pg, old, res) == OrZero(res.total)

TotalAfterLatestNonZero(pg, old, res) ==
    IF pg = 1 \/ TruthyNumber(res.total) THEN OrZero(res.total) ELSE old

TotalAfter(pg, old, res) == IF pg = 1 THEN OrZero(res.total) ELSE old

\* do { ... } while (nextPageToken), a throw leaving the loop.
AfterPageUntilUndefined(threw, cursor) ==
    IF threw THEN "failed" ELSE IF cursor # Null THEN "sched" ELSE "done"

AfterPageReturningPartial(threw, cursor) ==
    IF threw THEN "done" ELSE IF TruthyString(cursor) THEN "sched" ELSE "done"

AfterPageIgnoringCursor(threw, cursor) ==
    IF threw THEN "failed" ELSE "done"

AfterPage(threw, cursor) ==
    IF threw THEN "failed" ELSE IF TruthyString(cursor) THEN "sched" ELSE "done"

\* search.recordsWithIterator is called: it initialises its locals and hands
\* the first page's job to the limiter.
CallSearch(p) ==
    /\ pc[p] = "idle"
    /\ \E q \in Queries : query' = [query EXCEPT ![p] = Some(q)]
    /\ op' = [op EXCEPT ![p] = "search"]
    /\ results' = [results EXCEPT ![p] = <<>>]
    /\ nextPageToken' = [nextPageToken EXCEPT ![p] = Some("")]
    /\ total' = [total EXCEPT ![p] = 0]
    /\ page' = [page EXCEPT ![p] = 0]
    /\ pc' = [pc EXCEPT ![p] = "sched"]
    /\ outcome' = [outcome EXCEPT ![p] = NoOutcome]
    /\ limQueue' = Append(limQueue, p)
    /\ trace' = [trace EXCEPT ![p] = <<"schedule">>]
    /\ calls' = calls + 1
    /\ UNCHANGED <<clientVars, envVars, timerVars, callExch, authReply, authRequests,
                   sent, replies, jobFate, input, chunks, idx>>

\* records_query answers with one of R: the rest of search.records and of
\* the job, the loop test, and the next iteration up to its functionLimiter
\* call, or the return.
PageResponseFrom(p, R) ==
    /\ pc[p] = "awaitHttp" /\ op[p] = "search"
    /\ \E res \in R :
        LET threw == PageThrows(res)
            pg == page[p] + 1
            acc == IF threw THEN Accumulator(p) ELSE Accumulator(p) \o ItemsOf(res)
            tot == IF threw THEN total[p] ELSE TotalAfter(pg, total[p], res)
            nxt == AfterPage(threw, res.cursor)
        IN  /\ replies' = [replies EXCEPT ![p] = Append(@, res)]
            /\ jobFate' = [jobFate EXCEPT ![p] = Append(@, IF threw THEN "threw" ELSE "ok")]
            /\ page' = [page EXCEPT ![p] = IF res.transport THEN @ ELSE pg]
            /\ results' = [results EXCEPT ![p] = acc]
            /\ total' = [total EXCEPT ![p] = tot]
            /\ nextPageToken' = [nextPageToken EXCEPT ![p] = IF threw THEN @ ELSE res.cursor]
            /\ pc' = [pc EXCEPT ![p] = nxt]
            /\ limQueue' = IF nxt = "sched" THEN Append(limQueue, p) ELSE limQueue
            /\ trace' = [trace EXCEPT ![p] =
                   IF nxt = "sched" THEN @ \o <<"settle", "schedule">> ELSE Append(@, "settle")]
            /\ outcome' = [outcome EXCEPT ![p] =
                   IteratorOutcome(nxt, @, ThrownError(res), [total |-> tot, items |-> acc])]
    /\ UNCHANGED <<clientVars, envVars, timerVars, op, calls, callExch, authReply, authRequests,
                   input, chunks, idx, query, sent>>

PageResponse(p) == PageResponseFrom(p, PageResponses(Streamed(replies[p]), page[p] + 1))

NextPage ==
    \/ \E p \in IterCallers : CallSearch(p)
    \/ \E p \in IterCallers : LimiterDispatch(p)
    \/ \E p \in IterCallers : EnsureTokenValid(p)
    \/ \E p \in IterCallers : AuthResponseFrom(p, AuthResponsesBrief(now))
    \/ \E p \in IterCallers : SendRequest(p)
    \/ \E p \in IterCallers : PageResponse(p)

SpecPage == InitToken /\ [][NextPage]_vars

\* The event loop runs every continuation that is ready, the limiter starts
\* every job handed to it and every request is answered.
SpecPageFair == SpecPage /\ WF_vars(NextPage)

\* ============================================ single-request operations
\* The arguments of a single-request operation (one record, id or page of
\* records).
OpArgs == {<<1>>}

\* What a data endpoint may answer to a single request: a rejected axios
\* promise, an envelope with a non-"0" code and no data, or code "0" with data.
OpResponses(body) == {DataTransportError, DataAppFailure, DataOk(Some(body))}

\* Where a single-request operation suspends first.
FirstStep(o) ==
    IF UsesLimiter(o) THEN "sched" ELSE IF EnsuresToken(o) THEN "ensure" ELSE "send"

\* What the body of the operation (the job, when it is wrapped) returns or
\* throws on answer res: response.data, or response.data.data[0] for
\* department.exchange.
JobResultThrowingOnCode(o, res) ==
    IF res.transport THEN Threw(ThrownError(res))
    ELSE IF res.code # "0" THEN Threw([kind |-> "application", msg |-> res.msg])
    ELSE IF o = "exchange" THEN Returned(Head(res.items[1]))
    ELSE Returned(ResponseData(res))

JobResult(o, res) ==
    IF res.transport THEN Threw(ThrownError(res))
    ELSE IF o = "exchange"
         THEN IF res.items = Null THEN Threw(ThrownError(res)) ELSE Returned(Head(res.items[1]))
    ELSE Returned(ResponseData(res))

\* functionLimiter(job), once the job settled: the job's result, or its
\* rejection, unchanged.
ScheduleResult(jobOutcome) == jobOutcome

\* `const res = await functionLimiter(...); return res;` and, unwrapped,
\* `return res.data`.
OpResultDropped(o, settled) ==
    IF UsesLimiter(o) /\ settled.kind = "returned" THEN Returned(Null) ELSE settled

OpResult(o, settled) == settled

\* A single-request operation is called: it runs up to its first await.
CallOp(p) ==
    /\ pc[p] \in {"idle", "done", "failed"}
    /\ calls < MaxOpCalls
    /\ \E o \in SingleOps, args \in OpArgs :
        /\ op' = [op EXCEPT ![p] = o]
        /\ input' = [input EXCEPT ![p] = args]
        /\ pc' = [pc EXCEPT ![p] = FirstStep(o)]
        /\ limQueue' = IF FirstStep(o) = "sched" THEN Append(limQueue, p) ELSE limQueue
        /\ trace' = [trace EXCEPT ![p] =
               IF FirstStep(o) = "sched" THEN <<"schedule">> ELSE <<>>]
    /\ calls' = calls + 1
    /\ callExch' = [callExch EXCEPT ![p] = 0]
    /\ outcome' = [outcome EXCEPT ![p] = NoOutcome]
    /\ authReply' = [authReply EXCEPT ![p] = Null]
    /\ sent' = [sent EXCEPT ![p] = <<>>]
    /\ replies' = [replies EXCEPT ![p] = <<>>]
    /\ jobFate' = [jobFate EXCEPT ![p] = <<>>]
    /\ UNCHANGED <<clientVars, envVars, timerVars, authRequests,
                   chunks, idx, results, query, nextPageToken, total, page>>

\* The endpoint answers: the rest of the operation.
OpResponse(p) ==
    /\ pc[p] = "awaitHttp" /\ op[p] \in SingleOps
    /\ \E res \in OpResponses(input[p]) :
        LET o == op[p]
            job == JobResult(o, res)
            settled == OpResult(o, IF UsesLimiter(o) THEN ScheduleResult(job) ELSE job)
        IN  /\ replies' = [replies EXCEPT ![p] = Append(@, res)]
            /\ jobFate' = [jobFate EXCEPT ![p] =
                   IF ~UsesLimiter(o) THEN @
                   ELSE Append(@, IF job.kind = "threw" THEN "threw" ELSE "ok")]
            /\ trace' = [trace EXCEPT ![p] = Append(@, "settle")]
            /\ outcome' = [outcome EXCEPT ![p] = settled]
            /\ pc' = [pc EXCEPT ![p] = IF settled.kind = "threw" THEN "failed" ELSE "done"]
    /\ UNCHANGED <<clientVars, envVars, timerVars, op, calls, callExch, authReply, authRequests,
                   limQueue, iterVars, sent>>

\* Two callers share the client.
OpCallers == {1, 2}

NextOps ==
    \/ \E p \in OpCallers : CallInit(p)
    \/ \E p \in OpCallers : CallOp(p)
    \/ \E p \in OpCallers : LimiterDispatch(p)
    \/ \E p \in OpCallers : EnsureTokenValid(p)
    \/ \E p \in OpCallers : AuthResponseFrom(p, AuthResponsesBrief(now))
    \/ \E p \in OpCallers : SendRequest(p)
    \/ \E p \in OpCallers : OpResponse(p)

SpecOps == InitToken /\ [][NextOps]_vars

\* ================================= operations on a client whose token ages
\* A token the server grants with less than the safety margin left, or with
\* an expiry already past.
ShortLifetimes == {-1, 30000}

AuthShortLived(t) ==
    { [transport |-> FALSE, code |-> "0", msg |-> "success",
       accessToken |-> Some("t2"), expireTime |-> Some(t + d)] : d \in ShortLifetimes }

AuthResponsesAging(t) == AuthResponsesBrief(t) \cup AuthShortLived(t)

\* The input of the chunking iterators: two chunks.
AgingInputs == { [i \in 1..n |-> i] : n \in {chunkSize + 1} }

\* One caller makes one call after the other.
AgingCallers == {1}

NextAging ==
    \/ ticks < MaxAgingTicks /\ Tick
    \/ \E p \in AgingCallers : CallOp(p)
    \/ \E p \in AgingCallers : CallChunkedOn(p, AgingInputs)
    \/ \E p \in AgingCallers : LimiterDispatch(p)
    \/ \E p \in AgingCallers : EnsureTokenValid(p)
    \/ \E p \in AgingCallers : AuthResponseFrom(p, AuthResponsesAging(now))
    \/ \E p \in AgingCallers : SendRequest(p)
    \/ \E p \in AgingCallers : OpResponse(p)
    \/ \E p \in AgingCallers : DataResponse(p)

SpecAging == InitToken /\ [][NextAging]_vars

\* ================================================== concurrent iterators
\* Two invocations run side by side on one client.  Caller p's records are
\* numbered from IdBase(p), in its input and in what the server streams to it.
ConcurrentCallers == {1, 2}

IdBase(p) == p * 1000

ConcurrentInputs(p) == { [i \in 1..n |-> IdBase(p) + i] : n \in {chunkSize + 1} }

\* What records_query answers to caller p: a rejected promise, or a page of 50
\* records with a cursor of p's own on its first page and none on the second.
ConcurrentPages(p) ==
    {PageTransportError} \cup
    { [transport |-> FALSE, code |-> "0", msg |-> "success", hasData |-> TRUE,
       items |-> Some([i \in 1..50 |-> IdBase(p) + Streamed(replies[p]) + i]),
       total |-> Some(100), cursor |-> c] :
        c \in IF page[p] = 0 THEN {Some(CursorOfPage(p))} ELSE {Null} }

NextConcurrent ==
    \/ \E p \in ConcurrentCallers : CallChunkedOn(p, ConcurrentInputs(p))
    \/ \E p \in ConcurrentCallers : CallSearch(p)
    \/ \E p \in ConcurrentCallers : LimiterDispatch(p)
    \/ \E p \in ConcurrentCallers : EnsureTokenValid(p)
    \/ \E p \in ConcurrentCallers : AuthResponseFrom(p, AuthResponsesBrief(now))
    \/ \E p \in ConcurrentCallers : SendRequest(p)
    \/ \E p \in ConcurrentCallers : DataResponse(p)
    \/ \E p \in ConcurrentCallers : PageResponseFrom(p, ConcurrentPages(p))

SpecConcurrent == InitToken /\ [][NextConcurrent]_vars

\* ============================================== getters and setLoggerLevel
\* The cached <<accessToken, expireTime>> after a getter ran: the getters
\* assign nothing.
CacheAfterReadDroppingExpired(tok, exp, t) ==
    IF TruthyString(tok) /\ TruthyNumber(exp) /\ exp[1] - t <= 0
    THEN <<Null, Null>>
    ELSE <<tok, exp>>

CacheAfterRead(tok, exp, t) == <<tok, exp>>

\* A getter is read: get token, get tokenExpireTime, get currentNamespace.  It
\* returns a string or null (text) or a number or null (number).
Getter(name, text, number) ==
    /\ lastRead' = Some([getter |-> name, text |-> text, number |-> number])
    /\ accessToken' = CacheAfterRead(accessToken, expireTime, now)[1]
    /\ expireTime' = CacheAfterRead(accessToken, expireTime, now)[2]
    /\ UNCHANGED <<disableTokenCache, clientId, clientSecret, namespace, loggerLevel,
                   envVars, callVars, authRequests, limQueue, timerVars, iterVars, logVars>>

GetToken == Getter("token", accessToken, Null)

GetTokenExpireTime ==
    Getter("tokenExpireTime", Null, tokenExpireTime(accessToken, expireTime, now))

GetCurrentNamespace == Getter("currentNamespace", Some(namespace), Null)

\* The levels setLoggerLevel is called with.
LevelsSet == {LoggerLevel.error, LoggerLevel.debug}

SetLoggerLevel(level) ==
    /\ loggerLevel' = level
    /\ UNCHANGED <<accessToken, expireTime, disableTokenCache, clientId, clientSecret,
                   namespace, lastRead,
                   envVars, callVars, authRequests, limQueue, timerVars, iterVars, logVars>>

\* One caller calls init() while the getters and setLoggerLevel are used.
AccessCallers == {1}

NextAccess ==
    \/ Tick
    \/ \E p \in AccessCallers : CallInit(p)
    \/ \E p \in AccessCallers : EnsureTokenValid(p)
    \/ \E p \in AccessCallers : AuthResponse(p)
    \/ GetToken
    \/ GetTokenExpireTime
    \/ GetCurrentNamespace
    \/ \E level \in LevelsSet : SetLoggerLevel(level)

SpecAccess == InitToken /\ [][NextAccess]_vars

\* ============================================================== limiter
\* functionLimiter (./limiter) with its timing: a reservoir of permits reset
\* to its capacity at every multiple of the refill interval, and a minimum
\* time between dispatches.
LimiterConfigs ==
    { DefaultLimiterConfig,
      [minTime |-> 0, reservoir |-> 2, interval |-> 300],
      [minTime |-> 100, reservoir |-> 3, interval |-> 500] }

\* The reservoir after the refill timer fired.
RefilledByAdding(cfg, reservoir) == reservoir + cfg.reservoir

Refilled(cfg, reservoir) == cfg.reservoir

\* Whether the limiter may start a job at time t.
MayDispatchIgnoringReservoir(cfg, reservoir, last, t) ==
    IF last = Null THEN TRUE ELSE t - last[1] >= cfg.minTime

MayDispatchIgnoringSpacing(cfg, reservoir, last, t) == reservoir >= 1

MayDispatch(cfg, reservoir, last, t) ==
    /\ reservoir >= 1
    /\ IF last = Null THEN TRUE ELSE t - last[1] >= cfg.minTime

\* The waiting job the limiter starts next: the oldest.
NextJobNewest(q) == q[Len(q)]

NextJob(q) == Head(q)

\* schedule(job): the job joins the queue.
LimiterSchedule ==
    /\ limScheduled < MaxJobs
    /\ limScheduled' = limScheduled + 1
    /\ limQueue' = Append(limQueue, limScheduled + 1)
    /\ UNCHANGED <<clientVars, envVars, callVars, authRequests, iterVars, logVars,
                   limConfig, limNow, limReservoir, limLast, dispatchLog>>

\* The limiter starts the oldest waiting job, taking one permit.
LimiterTimedDispatch ==
    /\ limQueue # <<>>
    /\ MayDispatch(limConfig, limReservoir, limLast, limNow)
    /\ limQueue' = Tail(limQueue)
    /\ limReservoir' = limReservoir - 1
    /\ limLast' = Some(limNow)
    /\ dispatchLog' = Append(dispatchLog, [job |-> NextJob(limQueue), at |-> limNow])
    /\ UNCHANGED <<clientVars, envVars, callVars, authRequests, iterVars, logVars,
                   limConfig, limNow, limScheduled>>

\* Time passes; the refill timer fires when a multiple of the interval is
\* reached.
LimiterTick ==
    /\ limNow < MaxLimiterTicks * LimiterTickMs
    /\ limNow' = limNow + LimiterTickMs
    /\ limReservoir' =
           IF limNow' \div limConfig.interval > limNow \div limConfig.interval
           THEN Refilled(limConfig, limReservoir)
           ELSE limReservoir
    /\ UNCHANGED <<clientVars, envVars, callVars, authRequests, iterVars, logVars,
                   limConfig, limQueue, limLast, limScheduled, dispatchLog>>

InitLimiter ==
    /\ InitClient /\ InitCallers
    /\ \E cfg \in LimiterConfigs : InitLimiterWith(cfg)

NextLimiter ==
    \/ LimiterSchedule
    \/ LimiterTimedDispatch
    \/ LimiterTick

SpecLimiter == InitLimiter /\ [][NextLimiter]_vars

\* ================================================================ claims
\* "A token is cached", as ensureTokenValid and tokenExpireTime test it.
TokenCached == TruthyString(accessToken) /\ TruthyNumber(expireTime)

ValidBeyondMargin == TokenCached /\ expireTime[1] - now > SafetyMarginMs

\* C1: with token caching enabled, an ensureTokenValid call made while a token
\* is cached and expireTime - now > 60000 ms sends no request to the
\* authentication endpoint.
C1_NoExchangeWhileValid ==
    [][\A p \in Procs :
        (pc[p] = "ensure" /\ pc'[p] # "ensure" /\ ~disableTokenCache /\ ValidBeyondMargin)
            => (authRequests' = authRequests /\ pc'[p] # "awaitAuth"
                /\ callExch'[p] = 0)]_vars

C1_Witness ==
    \E p \in Procs :
        /\ pc[p] = "done" /\ op[p] = "init" /\ callExch[p] = 0
        /\ ~disableTokenCache /\ ValidBeyondMargin
        /\ calls >= 2 /\ authRequests = 1

\* C2: with disableTokenCache = true every ensureTokenValid call sends exactly
\* one exchange, whatever token is cached and however long it stays valid.
C2_CacheDisabledAlwaysExchanges ==
    disableTokenCache =>
        /\ \A p \in Procs :
            /\ pc[p] \in {"awaitAuth", "done", "failed"} => callExch[p] = 1
            /\ pc[p] = "ensure" => callExch[p] = 0
        /\ authRequests = calls - Cardinality({p \in Procs : pc[p] = "ensure"})

C2_Witness ==
    /\ disableTokenCache /\ ValidBeyondMargin
    /\ authRequests = 2
    /\ \E p \in Procs : pc[p] = "done" /\ callExch[p] = 1 /\ calls = 2

\* C3: an exchange answered with a code other than "0" fails with an error
\* carrying the server's msg and leaves accessToken and expireTime exactly as
\* they were (a cached token stays; a fresh client keeps no token).
C3_RejectedExchangeKeepsState ==
    [][\A p \in Procs :
        (/\ pc[p] = "awaitAuth" /\ authReply'[p] # Null
         /\ ~authReply'[p][1].transport /\ authReply'[p][1].code # "0")
            => /\ pc'[p] = "failed"
               /\ outcome'[p] = Threw([kind |-> "auth", msg |-> authReply'[p][1].msg])
               /\ accessToken' = accessToken
               /\ expireTime' = expireTime]_vars

C3_Witness ==
    \E p \in Procs :
        /\ pc[p] = "failed"
        /\ outcome[p] = Threw([kind |-> "auth", msg |-> "bad secret"])
        /\ TokenCached /\ accessToken = Some("t1")
        /\ calls >= 2

\* ---- helpers of the claims about the iterators
CeilDiv(n, d) == (n + d - 1) \div d

Bodies(log) == [i \in 1..Len(log) |-> log[i].body]

\* Elements (i-1)*100+1 .. i*100 of the input: what chunk i must carry.
ExpectedChunk(inp, i) ==
    SubSeq(inp, (i - 1) * chunkSize + 1, Min(i * chunkSize, Len(inp)))

\* C4: a chunking iterator called with N elements builds ceil(N/100) chunks
\* of at most 100 elements that concatenate to the input, and sends them in
\* order, request i carrying elements (i-1)*100+1 .. i*100; when it returns
\* it has sent exactly ceil(N/100) requests whose payloads concatenate to the
\* input, each element once.
C4_ChunksReconstructInput ==
    \A p \in Procs : op[p] \in ChunkOps =>
        /\ Len(chunks[p]) = CeilDiv(Len(input[p]), chunkSize)
        /\ \A i \in 1..Len(chunks[p]) : Len(chunks[p][i]) \in 1..chunkSize
        /\ Flatten(chunks[p]) = input[p]
        /\ Len(sent[p]) <= CeilDiv(Len(input[p]), chunkSize)
        /\ \A i \in 1..Len(sent[p]) :
            /\ Len(sent[p][i].body) <= chunkSize
            /\ sent[p][i].body = ExpectedChunk(input[p], i)
        /\ pc[p] = "done" =>
            /\ Len(sent[p]) = CeilDiv(Len(input[p]), chunkSize)
            /\ Flatten(Bodies(sent[p])) = input[p]

C4_Witness ==
    \E p \in Procs :
        /\ op[p] = "batchExchange" /\ pc[p] = "done"
        /\ Len(input[p]) = 250 /\ Len(sent[p]) = 3
        /\ Len(sent[p][3].body) = 50

\* C7: when the job of chunk j of delete.recordsWithIterator throws, the
\* iterator has failed, chunks 1..j-1 (and no others before j) were sent,
\* no chunk after j is ever sent, and every request issued is one of the
\* delete batches (nothing rolls the earlier chunks back).
C7_FailedChunkAbortsDelete ==
    \A p \in Procs : op[p] = "delete" =>
        \A j \in 1..Len(jobFate[p]) : jobFate[p][j] = "threw" =>
            /\ pc[p] = "failed" /\ outcome[p].kind = "threw"
            /\ j = Len(jobFate[p])
            /\ Len(sent[p]) \in {j - 1, j}
            /\ \A i \in 1..Len(sent[p]) :
                /\ sent[p][i].op = "delete"
                /\ sent[p][i].body = ExpectedChunk(input[p], i)

C7_Witness ==
    \E p \in Procs :
        /\ op[p] = "delete" /\ pc[p] = "failed"
        /\ Len(chunks[p]) = 3
        /\ jobFate[p] = <<"ok", "threw">>
        /\ Len(sent[p]) = 2

\* C9: create.recordsWithIterator returns as items the created items of each
\* chunk's response concatenated in chunk order, hence the input order when
\* every response lists its chunk's records in order; 150 records are sent
\* as two requests of 100 and 50.
C9_CreateConcatenatesInOrder ==
    \A p \in Procs : (op[p] = "create" /\ pc[p] = "done") =>
        /\ outcome[p].kind = "returned"
        /\ outcome[p].value.items =
               Flatten([i \in 1..Len(replies[p]) |-> replies[p][i].items[1]])
        /\ (\A i \in 1..Len(replies[p]) : replies[p][i].items = Some(sent[p][i].body))
               => outcome[p].value.items = input[p]
        /\ Len(input[p]) = 150 =>
               /\ Len(sent[p]) = 2
               /\ Len(sent[p][1].body) = 100 /\ Len(sent[p][2].body) = 50

C9_Witness ==
    \E p \in Procs :
        /\ op[p] = "create" /\ pc[p] = "done"
        /\ Len(input[p]) = 150 /\ Len(sent[p]) = 2
        /\ outcome[p].value.items = input[p]

\* ---- helpers of the claims about pagination
\* Whether page answer r carried a next cursor.
HasNextCursor(r) == r.hasData /\ TruthyString(r.cursor)

PageItems(log) == Flatten([i \in 1..Len(log) |-> ItemsOf(log[i])])

\* C5: against a server that returns a non-empty next cursor on pages 1..k
\* and an empty or absent one on page k+1, search.recordsWithIterator makes
\* exactly k+1 fetches (it stops at the first page without a cursor and not
\* before) and returns the pages' items concatenated in page order.
C5_PaginationFetchesUntilEmptyCursor ==
    \A p \in Procs : op[p] = "search" =>
        /\ \A i \in 1..Len(replies[p]) :
            (jobFate[p][i] = "ok" /\ ~HasNextCursor(replies[p][i])) =>
                /\ i = Len(replies[p]) /\ Len(sent[p]) = i
                /\ pc[p] = "done"
        /\ pc[p] = "done" =>
            LET n == Len(replies[p])
            IN  /\ n >= 1 /\ Len(sent[p]) = n
                /\ \A i \in 1..(n - 1) : HasNextCursor(replies[p][i])
                /\ ~HasNextCursor(replies[p][n])
                /\ outcome[p].kind = "returned"
                /\ outcome[p].value.items = PageItems(replies[p])
                /\ outcome[p].value.items =
                       [i \in 1..Streamed(replies[p]) |-> i]

C5_Witness ==
    \E p \in Procs :
        /\ op[p] = "search" /\ pc[p] = "done"
        /\ Len(sent[p]) = 3
        /\ HasNextCursor(replies[p][1]) /\ HasNextCursor(replies[p][2])
        /\ replies[p][3].cursor = Some("")
        /\ Len(outcome[p].value.items) = 150

\* C8: when the total of the first page equals the number of records the
\* server streamed over all pages, search.recordsWithIterator returns that
\* total and as many items: 250 records in pages of 100, 100, 50 give three
\* fetches and {total: 250, items.length: 250}.
C8_ConsistentTotalMatchesItems ==
    \A p \in Procs :
        (/\ op[p] = "search" /\ pc[p] = "done"
         /\ OrZero(replies[p][1].total) = Streamed(replies[p]))
            => /\ outcome[p].value.total = OrZero(replies[p][1].total)
               /\ Len(outcome[p].value.items) = outcome[p].value.total

C8_Witness ==
    \E p \in Procs :
        /\ op[p] = "search" /\ pc[p] = "done"
        /\ Len(sent[p]) = 3
        /\ Len(ItemsOf(replies[p][1])) = 100 /\ Len(ItemsOf(replies[p][2])) = 100
        /\ Len(ItemsOf(replies[p][3])) = 50
        /\ replies[p][1].total = Some(250) /\ replies[p][2].total = Null
        /\ outcome[p].value.total = 250 /\ Len(outcome[p].value.items) = 250

\* C10: when the job of a page of search.recordsWithIterator throws, the
\* iteration has failed with that page as its last fetch: the caller gets the
\* error, not the items accumulated so far, and no further page is requested.
C10_PageFailureAborts ==
    \A p \in Procs : op[p] = "search" =>
        \A j \in 1..Len(jobFate[p]) : jobFate[p][j] = "threw" =>
            /\ pc[p] = "failed"
            /\ outcome[p].kind = "threw"
            /\ j = Len(jobFate[p])
            /\ Len(sent[p]) \in {j - 1, j}

C10_Witness ==
    \E p \in Procs :
        /\ op[p] = "search" /\ pc[p] = "failed"
        /\ jobFate[p] = <<"ok", "threw">>
        /\ Len(results[p]) = 100 /\ Len(sent[p]) = 2
        /\ outcome[p] = Threw([kind |-> "transport", msg |-> "network"])

\* ---- helpers of the claims about the limiter
\* Dispatches in refill window k: times k*I .. (k+1)*I - 1 from limiter start.
DispatchesInWindow(k) ==
    Cardinality({ i \in 1..Len(dispatchLog) :
                    dispatchLog[i].at \div limConfig.interval = k })

\* C6: for a limiter of capacity C and refill interval I, no refill window
\* [k*I, (k+1)*I) measured from limiter start holds more than C dispatches,
\* however many operations were scheduled.
C6_AtMostCapacityPerWindow ==
    \A k \in 0..(limNow \div limConfig.interval) :
        DispatchesInWindow(k) <= limConfig.reservoir

C6_Witness ==
    /\ limConfig.reservoir = 2
    /\ limNow >= limConfig.interval
    /\ DispatchesInWindow(limNow \div limConfig.interval) = 2
    /\ DispatchesInWindow(0) = 2
    /\ limReservoir = 0 /\ limQueue # <<>>

\* ---- helpers of the claims about the single-request operations
\* Positions of event e in a trace.
EventsAt(tr, e) == { i \in 1..Len(tr) : tr[i] = e }

\* Whether event e occurs in tr before position i.
Preceded(tr, i, e) == \E j \in 1..(i - 1) : tr[j] = e

Settled(p) == pc[p] \in {"done", "failed"}

\* C11: no operation issues an authenticated request without a preceding
\* ensureTokenValid call of that same operation.
C11_EnsureBeforeEverySend ==
    \A p \in Procs : op[p] \in SingleOps =>
        \A i \in EventsAt(trace[p], "send") : Preceded(trace[p], i, "ensure")

\* C12: every authenticated request, of every operation, is issued from
\* inside a job the limiter dispatched.
C12_EverySendInsideLimiterJob ==
    \A p \in Procs : op[p] \in SingleOps =>
        \A i \in EventsAt(trace[p], "send") : Preceded(trace[p], i, "dispatch")

\* C13: every authenticated request carries a token installed by a successful
\* exchange, never the absent token, whatever the order of calls (operations
\* called before init() included).
C13_HeaderCarriesInstalledToken ==
    \A p \in Procs : op[p] \in SingleOps =>
        \A i \in 1..Len(sent[p]) :
            /\ sent[p][i].auth # "null"
            /\ sent[p][i].auth \in ServerTokens

\* C14 as stated: a single-request operation answered with HTTP success and an
\* envelope code other than "0" fails with an application error carrying the
\* server's msg.
C14_NonZeroCodeIsFailure ==
    \A p \in Procs : (op[p] \in SingleOps /\ Settled(p) /\ replies[p] # <<>>) =>
        LET r == replies[p][1]
        IN  (~r.transport /\ r.code # "0") =>
                /\ outcome[p].kind = "threw"
                /\ outcome[p].error = [kind |-> "application", msg |-> r.msg]

\* C14, amended: a single-request operation answered with HTTP success and an
\* envelope code other than "0" returns that envelope (its code and the
\* server's msg) to its caller as a normal return value, where a transport
\* error rejects; department.exchange, which reads data[0] of the envelope,
\* throws a TypeError when the envelope has no data.
C14_NonZeroCodeIsReturned ==
    \A p \in Procs : (op[p] \in SingleOps /\ Settled(p) /\ replies[p] # <<>>) =>
        LET r == replies[p][1]
        IN  /\ (~r.transport /\ r.code # "0" /\ op[p] # "exchange") =>
                /\ pc[p] = "done"
                /\ outcome[p] = Returned([code |-> r.code, msg |-> r.msg, items |-> r.items])
            /\ (~r.transport /\ r.code # "0" /\ op[p] = "exchange") =>
                /\ pc[p] = "failed"
                /\ outcome[p] = Threw([kind |-> "TypeError", msg |-> "undefined"])
            /\ r.transport =>
                /\ pc[p] = "failed"
                /\ outcome[p] = Threw([kind |-> "transport", msg |-> r.msg])

C14_Witness ==
    \E p \in Procs :
        /\ op[p] = "deleteRecord" /\ pc[p] = "done"
        /\ replies[p] = <<DataAppFailure>>
        /\ outcome[p].kind = "returned"
        /\ outcome[p].value.code = "1" /\ outcome[p].value.msg = "denied"

\* C19: a limiter-wrapped operation runs its job once (one dispatch, one
\* ensureTokenValid, at most one request) and settles exactly as the job did:
\* it returns the job's return value (response.data; data[0] for
\* department.exchange) or rejects with the job's error, unchanged.
C19_WrappedOperationSettlesAsItsJob ==
    \A p \in Procs : (op[p] \in SingleOps /\ UsesLimiter(op[p]) /\ Settled(p)) =>
        /\ Cardinality(EventsAt(trace[p], "dispatch")) = 1
        /\ Cardinality(EventsAt(trace[p], "ensure")) = 1
        /\ Cardinality(EventsAt(trace[p], "send")) = Len(replies[p])
        /\ Len(replies[p]) <= 1 /\ Len(jobFate[p]) = 1
        /\ (jobFate[p][1] = "threw") = (outcome[p].kind = "threw")
        /\ IF replies[p] = <<>>
           THEN /\ authReply[p] # Null
                /\ outcome[p].kind = "threw"
                /\ outcome[p].error.msg = authReply[p][1].msg
           ELSE LET r == replies[p][1]
                IN  outcome[p] =
                        IF r.transport THEN Threw([kind |-> "transport", msg |-> r.msg])
                        ELSE IF op[p] # "exchange"
                             THEN Returned([code |-> r.code, msg |-> r.msg, items |-> r.items])
                        ELSE IF r.items = Null
                             THEN Threw([kind |-> "TypeError", msg |-> "undefined"])
                        ELSE Returned(r.items[1][1])

C19_Witness ==
    \E p, q \in Procs :
        /\ op[p] = "searchRecord" /\ pc[p] = "done"
        /\ outcome[p] = Returned([code |-> "0", msg |-> "success", items |-> Some(<<1>>)])
        /\ op[q] = "updateRecord" /\ pc[q] = "failed"
        /\ outcome[q] = Threw([kind |-> "transport", msg |-> "network"])
        /\ jobFate[q] = <<"threw">>

\* ---- helpers of the claims about sequential chunks
\* Jobs of p's invocation handed to the limiter and not yet settled.
Outstanding(tr) ==
    Cardinality(EventsAt(tr, "schedule")) - Cardinality(EventsAt(tr, "settle"))

\* C15: within one invocation of a chunking iterator, a chunk's job is handed
\* to the limiter only once the previous chunk's job has settled: at most one
\* job of the invocation is queued or running, and at most one request is in
\* flight, at any time.
C15_ChunksStrictlySequential ==
    \A p \in Procs : op[p] \in ChunkOps =>
        /\ \A i \in EventsAt(trace[p], "schedule") : i > 1 => trace[p][i - 1] = "settle"
        /\ Outstanding(trace[p]) \in {0, 1}
        /\ Cardinality({ k \in 1..Len(limQueue) : limQueue[k] = p }) <= 1
        /\ Len(sent[p]) - Len(replies[p]) \in {0, 1}
        /\ pc[p] \in {"ensure", "awaitAuth", "send", "awaitHttp"} =>
               /\ Outstanding(trace[p]) = 1
               /\ \A k \in 1..Len(limQueue) : limQueue[k] # p

C15_Witness ==
    \E p \in Procs :
        /\ op[p] = "update" /\ pc[p] = "awaitHttp"
        /\ Len(chunks[p]) = 3 /\ idx[p] = 2
        /\ Len(sent[p]) = 2 /\ Len(replies[p]) = 1
        /\ Cardinality(EventsAt(trace[p], "schedule")) = 2

\* C16: update.recordsWithIterator and delete.recordsWithIterator, when all
\* chunks complete, return a sequence of ceil(N/100) entries, entry i being
\* the response body of chunk i as the server sent it.
C16_OneRawResponsePerChunk ==
    \A p \in Procs : (op[p] \in {"update", "delete"} /\ pc[p] = "done") =>
        /\ outcome[p].kind = "returned"
        /\ Len(outcome[p].value) = CeilDiv(Len(input[p]), chunkSize)
        /\ Len(replies[p]) = CeilDiv(Len(input[p]), chunkSize)
        /\ \A i \in 1..Len(replies[p]) :
               outcome[p].value[i] =
                   [code |-> replies[p][i].code, msg |-> replies[p][i].msg,
                    items |-> replies[p][i].items]

C16_Witness ==
    \E p \in Procs :
        /\ op[p] = "delete" /\ pc[p] = "done"
        /\ Len(input[p]) = 201 /\ Len(outcome[p].value) = 3
        /\ outcome[p].value[1].code = "0" /\ outcome[p].value[2].code = "1"
        /\ outcome[p].value[3].code = "0"

\* C17: when the job of a chunk of a chunking iterator throws, the caller gets
\* that error and nothing else: the rejection carries only the error's kind
\* and message, none of the results the earlier chunks produced.
C17_FailureLosesEarlierResults ==
    \A p \in Procs : (op[p] \in ChunkOps /\ pc[p] = "failed") =>
        /\ outcome[p].kind = "threw"
        /\ DOMAIN outcome[p] = {"kind", "error"}
        /\ DOMAIN outcome[p].error = {"kind", "msg"}
        /\ outcome[p].error.kind \in {"transport", "TypeError", "auth"}

C17_Witness ==
    \E p \in Procs :
        /\ op[p] = "create" /\ pc[p] = "failed"
        /\ jobFate[p] = <<"ok", "threw">>
        /\ Len(results[p]) = 100
        /\ outcome[p] = Threw([kind |-> "transport", msg |-> "network"])

\* C18: the limiter dispatches in the order of the schedule calls and drops
\* nothing: jobs are numbered as they are scheduled, the k dispatches so far
\* are jobs 1..k in that order at non-decreasing times, and the queue holds
\* exactly the jobs scheduled after them, oldest first.
C18_FifoDispatchNoDrop ==
    /\ \A i \in 1..Len(dispatchLog) : dispatchLog[i].job = i
    /\ \A i \in 1..(Len(dispatchLog) - 1) : dispatchLog[i].at <= dispatchLog[i + 1].at
    /\ limQueue = [k \in 1..(limScheduled - Len(dispatchLog)) |-> Len(dispatchLog) + k]

C18_Witness ==
    /\ limConfig.reservoir = 2
    /\ Len(dispatchLog) = 4 /\ limScheduled = 5
    /\ dispatchLog[2].at < limConfig.interval
    /\ dispatchLog[3].at >= limConfig.interval
    /\ limReservoir = 0 /\ limQueue = <<5>>

\* ---- helpers of the claim about client instances
\* Two Client instances in one process; the jobs handed to functionLimiter
\* come from them alternately.
Clients == {"A", "B"}

ClientOf(job) == IF job % 2 = 1 THEN "A" ELSE "B"

DispatchesInWindowBy(c, k) ==
    Cardinality({ i \in 1..Len(dispatchLog) :
                    /\ dispatchLog[i].at \div limConfig.interval = k
                    /\ ClientOf(dispatchLog[i].job) = c })

\* C20: each client has a limiter of its own: the permits a client has left
\* in the current window are the capacity less that client's own dispatches
\* in the window, whatever the other client dispatched.
C20_PermitsArePerClient ==
    \A c \in Clients :
        limReservoir =
            limConfig.reservoir - DispatchesInWindowBy(c, limNow \div limConfig.interval)

\* ---- helpers of the claims about the token cache
AuthSucceeded(r) == ~r.transport /\ r.code = "0"

\* C21: whenever an exchange is answered successfully, its ensureTokenValid
\* call succeeds and the cache holds that answer's token and expiry, whatever
\* an exchange answered earlier had written: of two concurrent exchanges the
\* one answered last decides the cached token.
C21_LastWriteWins ==
    [][\A p \in Procs :
        (pc[p] = "awaitAuth" /\ pc'[p] # "awaitAuth" /\ AuthSucceeded(authReply'[p][1]))
            => /\ pc'[p] = "done"
               /\ outcome'[p] = Returned(Null)
               /\ accessToken' = authReply'[p][1].accessToken
               /\ expireTime' = authReply'[p][1].expireTime]_vars

\* Both callers found no token and exchanged; caller 1 was answered first.
C21_Witness ==
    /\ ~disableTokenCache /\ ticks = 0
    /\ calls = 2 /\ authRequests = 2
    /\ pc[1] = "done" /\ pc[2] = "done"
    /\ callExch[1] = 1 /\ callExch[2] = 1
    /\ authReply[1][1].accessToken = Some("t1")
    /\ authReply[1][1].expireTime = Some(now + 120000)
    /\ authReply[2][1].accessToken = Some("t2")
    /\ accessToken = Some("t2") /\ expireTime = Some(now + 60000)

\* tokenExpireTime as read in the current state.
RemainingSeconds == tokenExpireTime(accessToken, expireTime, now)

\* C23: tokenExpireTime is null exactly when no token is cached; otherwise it
\* is a number >= 0: 0 when expireTime - now <= 0, else the whole seconds of
\* expireTime - now (s with 1000 s <= expireTime - now < 1000 (s + 1)).
C23_RemainingValidityNeverNegative ==
    /\ (RemainingSeconds = Null) = ~TokenCached
    /\ TokenCached =>
        LET remainMs == expireTime[1] - now
            secs == RemainingSeconds[1]
        IN  /\ secs >= 0
            /\ remainMs <= 0 => secs = 0
            /\ remainMs > 0 => (1000 * secs <= remainMs /\ remainMs < 1000 * (secs + 1))

C23_Witness ==
    /\ TokenCached /\ expireTime[1] - now = -1
    /\ RemainingSeconds = Some(0)

\* C24: with caching enabled an ensureTokenValid call sends an exchange if and
\* only if no token is cached or now + 60000 > expireTime: with exactly
\* 60000 ms left it sends none, with 59999 ms left it sends one.
C24_ExchangeIffMissingOrInsideMargin ==
    [][\A p \in Procs :
        (pc[p] = "ensure" /\ pc'[p] # "ensure" /\ ~disableTokenCache)
            => /\ (authRequests' = authRequests + 1 /\ pc'[p] = "awaitAuth")
                    = (~TokenCached \/ now + 60000 > expireTime[1])
               /\ (authRequests' = authRequests /\ pc'[p] = "done")
                    = (TokenCached /\ now + 60000 <= expireTime[1])
               /\ (TokenCached /\ expireTime[1] - now = 60000) => authRequests' = authRequests
               /\ (TokenCached /\ expireTime[1] - now = 59999)
                    => authRequests' = authRequests + 1]_vars

C24_Witness ==
    \E p \in Procs :
        /\ ~disableTokenCache /\ TokenCached
        /\ expireTime[1] - now = 60000
        /\ pc[p] = "done" /\ op[p] = "init" /\ callExch[p] = 0
        /\ calls = 2 /\ authRequests = 1

\* C25: accessToken and expireTime start both absent and change only
\* together, in the step that processes a successful exchange answer, to the
\* token and the expiry of that one answer; they are never one absent and the
\* other present.
C25_TokenAndExpiryFromOneResponse ==
    [][/\ (accessToken' = Null) = (expireTime' = Null)
       /\ (accessToken' # accessToken \/ expireTime' # expireTime) =>
            \E p \in Procs :
                /\ pc[p] = "awaitAuth" /\ pc'[p] = "done"
                /\ AuthSucceeded(authReply'[p][1])
                /\ accessToken' = authReply'[p][1].accessToken
                /\ expireTime' = authReply'[p][1].expireTime]_vars

\* A token with the later expiry was replaced by one with the earlier expiry.
C25_Witness ==
    \E p, q \in Procs :
        /\ p # q /\ authReply[p] # Null /\ authReply[q] # Null
        /\ authReply[p][1].accessToken = Some("t1")
        /\ authReply[p][1].expireTime = Some(now + 120000)
        /\ authReply[q][1].accessToken = Some("t2")
        /\ accessToken = Some("t2") /\ expireTime = Some(now + 60000)
        /\ authRequests = 2

C26_TotalFromFirstPageOnly ==
    \A p \in Procs : op[p] = "search" =>
        /\ (replies[p] # <<>> /\ jobFate[p][1] = "ok") =>
               total[p] = (IF replies[p][1].total = Null THEN 0 ELSE replies[p][1].total[1])
        /\ pc[p] = "done" =>
               /\ outcome[p].value.total =
                      (IF replies[p][1].total = Null THEN 0 ELSE replies[p][1].total[1])
               /\ outcome[p].value.items = PageItems(replies[p])

C26_Witness ==
    \E p \in Procs :
        /\ op[p] = "search" /\ pc[p] = "done"
        /\ Len(replies[p]) = 2
        /\ replies[p][1].total = Null /\ replies[p][2].total = Some(250)
        /\ outcome[p].value.total = 0 /\ Len(outcome[p].value.items) = 150

\* C27: the first request of search.recordsWithIterator carries page_token ""
\* whatever page_token the caller gave, request i+1 carries the next cursor of
\* response i, and every request carries the caller's other fields unchanged;
\* a response is followed by at most one request.
C27_CursorThreading ==
    \A p \in Procs : op[p] = "search" =>
        /\ Len(sent[p]) - Len(replies[p]) \in {0, 1}
        /\ \A i \in 1..Len(sent[p]) :
            /\ sent[p][i].body.page_size = query[p][1].page_size
            /\ sent[p][i].body.filter = query[p][1].filter
            /\ i = 1 => sent[p][i].body.page_token = ""
            /\ i > 1 => /\ HasNextCursor(replies[p][i - 1])
                        /\ sent[p][i].body.page_token = replies[p][i - 1].cursor[1]

C27_Witness ==
    \E p \in Procs :
        /\ op[p] = "search" /\ query[p][1].page_token = Some("x")
        /\ Len(sent[p]) = 3
        /\ sent[p][1].body.page_token = ""
        /\ sent[p][2].body.page_token = "a" /\ sent[p][3].body.page_token = "b"

\* C28: search.recordsWithIterator returns only on a response whose next
\* cursor is absent or empty; a response with a non-empty cursor is followed
\* by another fetch whatever the page count; and, every fetch being answered
\* and the server ending the stream at some page, the iteration started
\* eventually returns or fails.
C28_TerminatesExactlyOnEmptyCursor ==
    /\ [](\A p \in IterCallers :
            (op[p] = "search" /\ pc[p] = "done") =>
                ~HasNextCursor(replies[p][Len(replies[p])]))
    /\ [][\A p \in IterCallers :
            (pc[p] = "awaitHttp" /\ pc'[p] # "awaitHttp"
             /\ HasNextCursor(replies'[p][Len(replies'[p])]))
                => (pc'[p] = "sched" /\ limQueue' = Append(limQueue, p))]_vars
    /\ \A p \in IterCallers :
            (op[p] = "search" /\ pc[p] = "sched") ~> (pc[p] \in {"done", "failed"})

C28_Witness ==
    \E p \in Procs :
        /\ op[p] = "search" /\ pc[p] = "done"
        /\ page[p] = MaxPages /\ Len(sent[p]) = MaxPages
        /\ replies[p][MaxPages].cursor = Null
        /\ HasNextCursor(replies[p][MaxPages - 1])

\* ---- helpers of the claims about the limiter's reservoir and spacing
Dispatched == Len(dispatchLog') = Len(dispatchLog) + 1

RefillDue == limNow' \div limConfig.interval > limNow \div limConfig.interval

\* C29: the reservoir stays within 0..capacity; a dispatch happens only with
\* at least one permit and takes exactly one; a refill sets the reservoir to
\* the capacity whatever was left.
C29_ReservoirWithinCapacity ==
    /\ [](limReservoir \in 0..limConfig.reservoir)
    /\ [][/\ Dispatched => (limReservoir >= 1 /\ limReservoir' = limReservoir - 1)
          /\ RefillDue => limReservoir' = limConfig.reservoir
          /\ (~Dispatched /\ ~RefillDue) => limReservoir' = limReservoir]_vars

C29_Witness ==
    /\ limConfig.reservoir = 2
    /\ limNow = limConfig.interval
    /\ limReservoir = 2
    /\ DispatchesInWindow(0) = 1
    /\ limQueue = <<>>

\* C30: any two consecutive dispatches are at least minTime apart, also with
\* permits left and jobs waiting.
C30_MinTimeBetweenDispatches ==
    \A i \in 1..(Len(dispatchLog) - 1) :
        dispatchLog[i + 1].at - dispatchLog[i].at >= limConfig.minTime

C30_Witness ==
    /\ limConfig = DefaultLimiterConfig
    /\ Len(dispatchLog) = 2 /\ dispatchLog[1].at = 0
    /\ dispatchLog[2].at = limConfig.minTime
    /\ limReservoir >= 1 /\ limQueue # <<>>
    /\ limLast = Some(limNow)

\* ---- helpers of the claims about envelopes and totals in the iterators
Envelope(r) == [code |-> r.code, msg |-> r.msg, items |-> r.items]

Running(p) == pc[p] \in {"sched", "ensure", "awaitAuth", "send", "awaitHttp"}

\* C35: in update.recordsWithIterator and delete.recordsWithIterator a chunk
\* answered normally with a code other than "0" is a chunk like any other: its
\* job returns, the envelope is entry i of the results and the loop goes on to
\* the next chunk; the iteration fails only when a job threw (the request was
\* rejected or the token exchange failed), and then at that chunk.
C35_NonZeroEnvelopeDoesNotAbort ==
    \A p \in Procs : op[p] \in {"update", "delete"} =>
        /\ \A i \in 1..Len(replies[p]) : ~replies[p][i].transport =>
            /\ jobFate[p][i] = "ok"
            /\ results[p][i] = Envelope(replies[p][i])
            /\ i < Len(chunks[p]) => (Running(p) \/ Len(replies[p]) > i \/ Len(jobFate[p]) > i)
            /\ (i < Len(chunks[p]) /\ Len(replies[p]) = i /\ Len(jobFate[p]) = i) =>
                   (Running(p) /\ Len(sent[p]) \in {i, i + 1})
        /\ pc[p] = "failed" =>
            /\ jobFate[p][Len(jobFate[p])] = "threw"
            /\ \/ Len(replies[p]) = Len(jobFate[p]) /\ replies[p][Len(replies[p])].transport
               \/ /\ Len(replies[p]) = Len(jobFate[p]) - 1
                  /\ authReply[p] # Null /\ ~(~authReply[p][1].transport /\ authReply[p][1].code = "0")
        /\ pc[p] = "done" => Len(sent[p]) = Len(chunks[p])

C35_Witness ==
    \E p \in Procs :
        /\ op[p] = "update" /\ pc[p] = "done"
        /\ Len(chunks[p]) = 3 /\ Len(sent[p]) = 3
        /\ replies[p][1].code = "1" /\ replies[p][2].code = "1" /\ replies[p][3].code = "0"
        /\ outcome[p].kind = "returned" /\ Len(outcome[p].value) = 3
        /\ outcome[p].value[1].msg = "denied"

\* Items the server returned over all chunks of p's operation.
ReturnedItems(log) == Flatten([i \in 1..Len(log) |-> ItemsOf(log[i])])

DataOps == SingleOps \cup ChunkOps

\* The cached token, tested as ensureTokenValid tests it at time `now`.
InsideMargin == TokenCached /\ now + SafetyMarginMs > expireTime[1]

\* The events of p's trace from its last "ensure" on.
SinceLastEnsure(tr) ==
    LET at == { i \in 1..Len(tr) : tr[i] = "ensure" }
        last == CHOOSE i \in at : \A j \in at : j <= i
    IN  IF at = {} THEN <<>> ELSE SubSeq(tr, last, Len(tr))

\* C31: when the exchange of an operation's ensureTokenValid fails (the server
\* answers a code other than "0", or the request is rejected), the operation
\* has failed with that error and has sent no data request after that
\* ensureTokenValid call (a single-request operation: none at all), also when
\* a token is still cached.
C31_AuthFailureIsFatal ==
    \A p \in Procs :
        (op[p] \in DataOps /\ authReply[p] # Null /\ ~AuthSucceeded(authReply[p][1])) =>
            /\ pc[p] = "failed"
            /\ outcome[p] =
                   Threw([kind |-> IF authReply[p][1].transport THEN "transport" ELSE "auth",
                          msg |-> authReply[p][1].msg])
            /\ SinceLastEnsure(trace[p]) = <<"ensure", "settle">>
            /\ Len(sent[p]) = Len(replies[p])
            /\ op[p] \in SingleOps => sent[p] = <<>>

C31_Witness ==
    \E p \in Procs :
        /\ op[p] = "deleteRecords" /\ pc[p] = "failed"
        /\ outcome[p] = Threw([kind |-> "auth", msg |-> "bad secret"])
        /\ sent[p] = <<>>
        /\ ~disableTokenCache /\ InsideMargin /\ accessToken = Some("t1")

\* C33: in every operation that runs in a limiter job, ensureTokenValid is
\* called inside the job, right after the limiter dispatched it, and the
\* request follows that call with nothing in between; a job whose token is
\* inside the 60 s margin when it is dispatched (it may have entered it while
\* the job waited) sends an exchange before its request.
C33_EnsureRunsInsideTheJob ==
    /\ [](\A p \in Procs : (op[p] \in DataOps /\ InLimiterJob(op[p])) =>
            /\ \A i \in EventsAt(trace[p], "send") : i > 1 /\ trace[p][i - 1] = "ensure"
            /\ \A i \in EventsAt(trace[p], "ensure") : i > 1 /\ trace[p][i - 1] = "dispatch"
            /\ \A i \in EventsAt(trace[p], "dispatch") :
                   i > 1 /\ trace[p][i - 1] \in {"schedule", "tick"}
            /\ pc[p] \in {"send", "awaitHttp"} =>
                   (callExch[p] = 0 \/ AuthSucceeded(authReply[p][1])))
    /\ [][\A p \in Procs :
            (/\ op[p] \in DataOps /\ InLimiterJob(op[p])
             /\ pc[p] = "ensure" /\ pc'[p] # "ensure"
             /\ (disableTokenCache \/ ~TokenCached \/ InsideMargin))
                => /\ pc'[p] = "awaitAuth"
                   /\ authRequests' = authRequests + 1
                   /\ sent' = sent]_vars

\* The second chunk's job waited while the clock advanced by 60001 ms: the
\* token it found valid for 120000 ms when it was scheduled has 59999 ms left.
C33_Witness ==
    \E p \in Procs :
        /\ op[p] = "delete" /\ idx[p] = 2 /\ pc[p] = "awaitAuth"
        /\ trace[p] = <<"schedule", "dispatch", "ensure", "send", "settle",
                        "schedule", "tick", "dispatch", "ensure">>
        /\ ~disableTokenCache /\ TokenCached /\ expireTime[1] - now = 59999
        /\ callExch[p] = 1 /\ authRequests = 2 /\ Len(sent[p]) = 1

\* C34: one ensureTokenValid call sends at most one exchange and does not
\* look at the token it obtained: when the exchange succeeds the operation
\* goes on to its request, sent with that token, also when the token's
\* expireTime is within 60 s of now or past; and every ensureTokenValid call
\* that finds such a token cached sends an exchange.
C34_ObtainedTokenIsNotRechecked ==
    /\ [](\A p \in Procs : op[p] \in DataOps =>
            /\ callExch[p] <= 1
            /\ pc[p] = "ensure" => callExch[p] = 0
            /\ (pc[p] = "awaitHttp" /\ callExch[p] = 1) =>
                   /\ AuthSucceeded(authReply[p][1])
                   /\ sent[p][Len(sent[p])].auth = authReply[p][1].accessToken[1])
    /\ [][\A p \in Procs : op[p] \in DataOps =>
            /\ (pc[p] = "awaitAuth" /\ pc'[p] # "awaitAuth"
                 /\ AuthSucceeded(authReply'[p][1]))
                    => (pc'[p] = "send" /\ authRequests' = authRequests)
            /\ (pc[p] = "ensure" /\ pc'[p] # "ensure" /\ InsideMargin)
                    => (pc'[p] = "awaitAuth" /\ authRequests' = authRequests + 1)]_vars

\* No time has passed: the first chunk was sent with the token its job
\* obtained, 30000 ms from expiry, and the second chunk's job exchanges again.
C34_Witness ==
    \E p \in Procs :
        /\ op[p] = "update" /\ idx[p] = 2 /\ pc[p] = "awaitAuth"
        /\ ~disableTokenCache /\ ticks = 0
        /\ accessToken = Some("t2") /\ expireTime[1] - now = 30000
        /\ sent[p][1].auth = "t2" /\ Len(sent[p]) = 1
        /\ callExch[p] = 1 /\ authRequests = 2

C32_AccessorsAreReadOnly ==
    [][/\ (lastRead' # lastRead \/ loggerLevel' # loggerLevel) =>
            /\ accessToken' = accessToken /\ expireTime' = expireTime
            /\ authRequests' = authRequests
            /\ pc' = pc /\ callExch' = callExch /\ outcome' = outcome
       /\ lastRead' # lastRead =>
            <<lastRead'[1].text, lastRead'[1].number>> =
                CASE lastRead'[1].getter = "token" -> <<accessToken, Null>>
                  [] lastRead'[1].getter = "tokenExpireTime" -> <<Null, RemainingSeconds>>
                  [] lastRead'[1].getter = "currentNamespace" -> <<Some(namespace), Null>>
       /\ clientId' = clientId /\ clientSecret' = clientSecret
       /\ namespace' = namespace /\ disableTokenCache' = disableTokenCache]_vars

\* The remaining validity of a lapsed token was read, after the log level
\* was changed: the token is still cached.
C32_Witness ==
    /\ lastRead = Some([getter |-> "tokenExpireTime", text |-> Null, number |-> Some(0)])
    /\ loggerLevel = LoggerLevel.debug
    /\ TokenCached /\ expireTime[1] - now < 0
    /\ accessToken = Some("t2") /\ authRequests = 1

\* ---- helpers of the claim about concurrent iterators
\* The answers among log on which the job and the loop body did not throw.
Kept(o, log) == SelectSeq(log, LAMBDA r : ~(JobThrows(o, r) \/ LoopThrows(o, r)))

Envelopes(log) == [i \in 1..Len(log) |-> Envelope(log[i])]

\* Whether record id belongs to caller p.
OwnedBy(p, id) == id \in (IdBase(p) + 1)..(IdBase(p) + 999)

\* C38: with two iterators running side by side on one client, each
\* invocation's accumulator holds exactly what its own requests returned, in
\* its own request order (the items of its responses for create,
\* batchExchange and search, its response envelopes for update and delete),
\* its requests carry its own chunks or its own cursor, and its result is
\* built from that accumulator: nothing fetched for the other invocation.
C38_InvocationsKeepSeparateState ==
    \A p \in ConcurrentCallers :
        /\ op[p] \in {"create", "batchExchange"} =>
               results[p] = ReturnedItems(Kept(op[p], replies[p]))
        /\ op[p] \in {"update", "delete"} =>
               results[p] = Envelopes(Kept(op[p], replies[p]))
        /\ op[p] = "search" =>
            /\ results[p] = PageItems(SelectSeq(replies[p], LAMBDA r : ~PageThrows(r)))
            /\ \A i \in 2..Len(sent[p]) :
                   sent[p][i].body.page_token = replies[p][i - 1].cursor[1]
        /\ op[p] \in {"create", "batchExchange", "search"} =>
               \A i \in 1..Len(results[p]) : OwnedBy(p, results[p][i])
        /\ op[p] \in ChunkOps =>
               \A i \in 1..Len(sent[p]) :
                   /\ sent[p][i].body = ExpectedChunk(input[p], i)
                   /\ \A k \in 1..Len(sent[p][i].body) : OwnedBy(p, sent[p][i].body[k])
        /\ pc[p] = "done" =>
               outcome[p] =
                   Returned(CASE op[p] = "search" -> [total |-> total[p], items |-> results[p]]
                              [] op[p] = "create" ->
                                     [total |-> Len(input[p]), items |-> results[p]]
                              [] OTHER -> results[p])

\* Both invocations have their second request in flight, each holding what
\* its first request returned.
C38_Witness ==
    /\ op[1] = "search" /\ op[2] = "create"
    /\ pc[1] = "awaitHttp" /\ pc[2] = "awaitHttp"
    /\ Len(sent[1]) = 2 /\ Len(sent[2]) = 2
    /\ Len(results[1]) = 50 /\ Len(results[2]) = 100
    /\ results[1][1] = IdBase(1) + 1 /\ results[2][1] = IdBase(2) + 1

====
